---- MODULE Spec2Model ----
(***************************************************************************)
(* Model of ConvertTo[T1, T2] (main.go): the reflection-driven layout      *)
(* check of a pointer-to-struct type T1 against a struct type T2, followed *)
(* by the unsafe read of a T2 value at the address held by the T1 value.   *)
(*                                                                         *)
(* A type is a record [ptr, base, name, fields]: ptr levels of pointer     *)
(* around a base kind; fields is the field list of a struct base.  A field *)
(* type is [ptr, base].  Memory is byte-level: the source struct, the      *)
(* pointees of its pointer fields, and the returned T2 value are byte      *)
(* sequences laid out as the gc compiler lays structs out on a 64-bit      *)
(* target.                                                                 *)
(***************************************************************************)
EXTENDS Integers, Sequences, FiniteSets, TLC

VARIABLES T1, T2, pc, result, src, heap, t2, wild

vars == <<T1, T2, pc, result, src, heap, t2, wild>>

\* Longest field list of the enumerated struct types.
MaxFields == 2

-----------------------------------------------------------------------------
(* reflect.Type                                                            *)

Kind(t) == IF t.ptr > 0 THEN "Pointer" ELSE t.base

Elem(t) == [t EXCEPT !.ptr = @ - 1]

NumField(t) == Len(t.fields)

\* reflect's Field(i) is 0-based; sequences are 1-based.
Field(t, i) == t.fields[i + 1]

\* Unnamed (predeclared or pointer) field types are identical when they are
\* built alike.
IdenticalFieldType(a, b) == a.ptr = b.ptr /\ a.base = b.base

\* Two struct types have identical underlying types when their field lists
\* agree in length, names and types.
IdenticalFields(a, b) ==
    /\ Len(a.fields) = Len(b.fields)
    /\ \A i \in 1..Len(a.fields) :
          /\ a.fields[i].name = b.fields[i].name
          /\ IdenticalFieldType(a.fields[i].type, b.fields[i].type)

\* The same defined type (what AssignableTo asks of two named types).
AssignableTo(a, b) == a.ptr = b.ptr /\ a.base = b.base /\ a.name = b.name

ConvertibleTo(a, b) ==
    \/ AssignableTo(a, b)
    \/ a.ptr = 0 /\ b.ptr = 0 /\ a.base = "Struct" /\ b.base = "Struct" /\ IdenticalFields(a, b)

-----------------------------------------------------------------------------
(* validKinds / isValidKind                                                *)

validKinds ==
    {"Bool", "Int", "Int8", "Int32", "Int64",
     "Uint", "Uint8", "Uint32", "Uint64", "Float32", "Float64"}

isValidKind(kind) == kind \in validKinds

-----------------------------------------------------------------------------
(* The checks of ConvertTo, in the order of the code                       *)

MsgSource == "T1 must be a pointer to struct"
MsgTarget == "T2 must be a struct"
MsgRedundant == "T1 must not be a type definition of T2 or vice versa"
MsgTooLarge == "T2 must be no larger than T1"
MsgMismatch == "T2 and T1 must have the same field type"
MsgInvalid == "T2 or T1 must be a valid type"
MsgIndex == "reflect: Field index out of bounds"

\* index is the value of the loop variable when the panic is raised, -1
\* outside the loop.
Panic(msg, index) == [status |-> "panic", msg |-> msg, index |-> index]

Ok == [status |-> "ok", msg |-> "", index |-> -1]

NoResult == [status |-> "none", msg |-> "", index |-> -1]

SourceShapeBad(ttyp1) == Kind(ttyp1) # "Pointer" \/ Kind(Elem(ttyp1)) # "Struct"

TargetShapeBad(ttyp2) == Kind(ttyp2) # "Struct"

\* The size test as written: elmTyp1.NumField() < elmTyp1.NumField().
SizeTest(elmTyp1, elmTyp2) == NumField(elmTyp1) < NumField(elmTyp1)

StripPointer(ftyp) == IF Kind(ftyp) = "Pointer" THEN Elem(ftyp) ELSE ftyp

\* The comparison made after the pointers are stripped instead of before.
KindsDifferStripped(ftyp1, ftyp2) == Kind(StripPointer(ftyp1)) # Kind(StripPointer(ftyp2))

\* ftyp1.Kind() != ftyp2.Kind(), on the field types as declared.
KindsDiffer(ftyp1, ftyp2) == Kind(ftyp1) # Kind(ftyp2)

\* The validity test with && for ||.
KindsInvalidBoth(ftyp1, ftyp2) ==
    /\ ~isValidKind(Kind(StripPointer(ftyp1)))
    /\ ~isValidKind(Kind(StripPointer(ftyp2)))

\* !isValidKind(ftyp1.Kind()) || !isValidKind(ftyp2.Kind()), on the stripped
\* field types.
KindsInvalid(ftyp1, ftyp2) ==
    \/ ~isValidKind(Kind(StripPointer(ftyp1)))
    \/ ~isValidKind(Kind(StripPointer(ftyp2)))

RECURSIVE FieldLoop(_, _, _)
FieldLoop(elmTyp1, elmTyp2, i) ==
    IF ~(i < NumField(elmTyp2)) THEN Ok
    ELSE IF ~(i < NumField(elmTyp1)) THEN Panic(MsgIndex, i)
    ELSE IF KindsDiffer(Field(elmTyp1, i).type, Field(elmTyp2, i).type)
         THEN Panic(MsgMismatch, i)
    ELSE IF KindsInvalid(Field(elmTyp1, i).type, Field(elmTyp2, i).type)
         THEN Panic(MsgInvalid, i)
    ELSE FieldLoop(elmTyp1, elmTyp2, i + 1)

\* The checks with the field loop moved before the redundancy check.
FieldLoopBeforeRedundancy(ttyp1, ttyp2) ==
    IF SourceShapeBad(ttyp1) THEN Panic(MsgSource, -1)
    ELSE IF TargetShapeBad(ttyp2) THEN Panic(MsgTarget, -1)
    ELSE IF FieldLoop(Elem(ttyp1), ttyp2, 0) # Ok THEN FieldLoop(Elem(ttyp1), ttyp2, 0)
    ELSE IF ConvertibleTo(Elem(ttyp1), ttyp2) THEN Panic(MsgRedundant, -1)
    ELSE Ok

Validate(ttyp1, ttyp2) ==
    IF SourceShapeBad(ttyp1) THEN Panic(MsgSource, -1)
    ELSE IF TargetShapeBad(ttyp2) THEN Panic(MsgTarget, -1)
    ELSE IF ConvertibleTo(Elem(ttyp1), ttyp2) THEN Panic(MsgRedundant, -1)
    ELSE IF SizeTest(Elem(ttyp1), ttyp2) THEN Panic(MsgTooLarge, -1)
    ELSE FieldLoop(Elem(ttyp1), ttyp2, 0)

-----------------------------------------------------------------------------
(* Memory layout of the values                                             *)

KindSize(kind) ==
    CASE kind \in {"Bool", "Int8", "Uint8"} -> 1
      [] kind \in {"Int16", "Uint16"} -> 2
      [] kind \in {"Int32", "Uint32", "Float32"} -> 4
      [] kind \in {"Int", "Int64", "Uint", "Uint64", "Float64"} -> 8
      [] kind = "String" -> 16
      [] OTHER -> 8

Sizeof(ftyp) == IF ftyp.ptr > 0 THEN 8 ELSE KindSize(ftyp.base)

Alignof(ftyp) == IF Sizeof(ftyp) > 8 THEN 8 ELSE Sizeof(ftyp)

AlignUp(n, a) == ((n + a - 1) \div a) * a

RECURSIVE Offset(_, _)
\* Byte offset of the i-th field (1-based) of a field list.
Offset(fields, i) ==
    IF i = 1 THEN 0
    ELSE AlignUp(Offset(fields, i - 1) + Sizeof(fields[i - 1].type), Alignof(fields[i].type))

RECURSIVE MaxAlign(_, _)
MaxAlign(fields, i) ==
    IF i = 0 THEN 1
    ELSE IF Alignof(fields[i].type) > MaxAlign(fields, i - 1)
         THEN Alignof(fields[i].type) ELSE MaxAlign(fields, i - 1)

StructSize(fields) ==
    IF Len(fields) = 0 THEN 0
    ELSE AlignUp(Offset(fields, Len(fields)) + Sizeof(fields[Len(fields)].type),
                 MaxAlign(fields, Len(fields)))

\* The bytes of the i-th field (1-based) of a struct value stored in bytes.
FieldBytes(bytes, fields, i) ==
    [k \in 1..Sizeof(fields[i].type) |-> bytes[Offset(fields, i) + k]]

\* bytes with the i-th field overwritten by val.
StoreField(bytes, fields, i, val) ==
    [j \in 1..Len(bytes) |->
        IF j > Offset(fields, i) /\ j <= Offset(fields, i) + Sizeof(fields[i].type)
        THEN val[j - Offset(fields, i)] ELSE bytes[j]]

\* The index of the field that owns byte j of a struct (0: padding).
OwnerOf(fields, j) ==
    LET owners == {i \in 1..Len(fields) :
                      j > Offset(fields, i) /\ j <= Offset(fields, i) + Sizeof(fields[i].type)}
    IN IF owners = {} THEN 0 ELSE CHOOSE i \in owners : TRUE

\* A pointer value holds the address of its pointee in its low byte; the
\* pointee of the i-th field lives at address i.  0 is nil.
PointerTo(addr) == [k \in 1..8 |-> IF k = 1 THEN addr ELSE 0]

AddressOf(ptrBytes) == ptrBytes[1]

\* The source struct as main builds one: every field set, pointer fields
\* pointing at their own variable.
SourceBytes(fields) ==
    [j \in 1..StructSize(fields) |->
        LET i == OwnerOf(fields, j) IN
        IF i = 0 THEN 0
        ELSE IF fields[i].type.ptr > 0 THEN PointerTo(i)[j - Offset(fields, i)]
        ELSE 16 * i + (j - Offset(fields, i))]

SourceHeap(fields) ==
    [i \in 1..Len(fields) |->
        IF fields[i].type.ptr = 0 THEN << >>
        ELSE IF fields[i].type.ptr > 1 THEN PointerTo(0)
        ELSE [k \in 1..Sizeof(Elem(fields[i].type)) |-> 100 + 10 * i + k]]

\* What a byte outside the modelled objects may hold; wild is the value the
\* run finds there.
Garbage == {0, 255}

\* The read started one byte past p.
ReinterpretShifted(bytes, size, g) ==
    [j \in 1..size |-> IF j + 1 <= Len(bytes) THEN bytes[j + 1] ELSE g]

\* *(*T2)(p): a T2 value read from the bytes at p; bytes past the end of the
\* object at p are whatever lies there.
Reinterpret(bytes, size, g) ==
    [j \in 1..size |-> IF j <= Len(bytes) THEN bytes[j] ELSE g]

-----------------------------------------------------------------------------
(* The enumerated inputs                                                   *)

FieldTypes ==
    { [ptr |-> 0, base |-> "Int8"], [ptr |-> 0, base |-> "Int32"],
      [ptr |-> 1, base |-> "Int8"], [ptr |-> 1, base |-> "Int32"],
      [ptr |-> 0, base |-> "String"], [ptr |-> 2, base |-> "Int8"] }

TypeLists(types) == UNION { [1..n -> types] : n \in 0..MaxFields }

\* Type1-like structs: fields named t1, t2, ...
SourceStructs(types) ==
    { [ptr |-> 1, base |-> "Struct", name |-> "Type1",
       fields |-> [i \in 1..Len(l) |-> [name |-> <<"t", i>>, type |-> l[i]]]] :
      l \in TypeLists(types) }

\* Type2-like structs: each field named as Type1's field at the same
\* position (t_i) or otherwise (tt_i).
TargetStructs(types, prefixes) ==
    { [ptr |-> 0, base |-> "Struct", name |-> "Type2",
       fields |-> [i \in 1..Len(l) |-> [name |-> <<l[i][2], i>>, type |-> l[i][1]]]] :
      l \in TypeLists(types \X prefixes) }

\* Type arguments of another shape.
OtherSources ==
    { [ptr |-> 0, base |-> "Struct", name |-> "Type1", fields |-> << >>],
      [ptr |-> 1, base |-> "Int32", name |-> "", fields |-> << >>],
      [ptr |-> 2, base |-> "Struct", name |-> "", fields |-> << >>] }

OtherTargets ==
    { [ptr |-> 1, base |-> "Struct", name |-> "", fields |-> << >>],
      [ptr |-> 0, base |-> "Int32", name |-> "int32", fields |-> << >>] }

TypeOK ==
    /\ pc \in {"call", "returned", "panicked"}
    /\ result.status \in {"none", "ok", "panic"}
    /\ (pc = "call") = (result.status = "none")
    /\ (pc = "returned") = (result.status = "ok")

InitWith(sources, targets) ==
    /\ T1 \in sources
    /\ src = SourceBytes(T1.fields)
    /\ heap = SourceHeap(T1.fields)
    /\ wild \in Garbage
    /\ T2 \in targets \cup (IF T1.ptr = 1 /\ T1.base = "Struct" THEN {Elem(T1)} ELSE {})
    /\ pc = "call"
    /\ result = NoResult
    /\ t2 = << >>

Init ==
    InitWith(SourceStructs(FieldTypes) \cup OtherSources,
             TargetStructs(FieldTypes, {"t", "tt"}) \cup OtherTargets)

-----------------------------------------------------------------------------
(* ConvertTo                                                               *)

ConvertTo ==
    /\ pc = "call"
    /\ result' = Validate(T1, T2)
    /\ IF result'.status = "ok"
       THEN /\ pc' = "returned"
            /\ t2' = Reinterpret(src, StructSize(T2.fields), wild)
       ELSE /\ pc' = "panicked"
            /\ t2' = t2
    /\ UNCHANGED <<T1, T2, src, heap, wild>>

Next == ConvertTo

Spec == Init /\ [][Next]_vars

-----------------------------------------------------------------------------
(* Use of the returned value next to the source, as main does with         *)
(* *t1.t2 and *t2.tt2                                                      *)

\* The values stored by the writes: n bytes, none of them zero.
WriteSeeds == {40, 80}

Value(seed, n) == [k \in 1..n |-> seed + k]

\* A store of val through a pointer to the object obj; bytes of val past the
\* end of obj land outside it.
StoreAt(obj, val) == [k \in 1..Len(obj) |-> IF k <= Len(val) THEN val[k] ELSE obj[k]]

\* A load of size bytes through a pointer to the object obj; bytes past the
\* end of obj are whatever lies there.
LoadAt(obj, size, g) == [k \in 1..size |-> IF k <= Len(obj) THEN obj[k] ELSE g]

\* t1.f = v, for a field f of an allowed non-pointer kind.
WriteSourceField(i, seed) ==
    /\ pc = "returned"
    /\ i \in 1..Len(T1.fields)
    /\ T1.fields[i].type.ptr = 0
    /\ isValidKind(T1.fields[i].type.base)
    /\ src' = StoreField(src, T1.fields, i, Value(seed, Sizeof(T1.fields[i].type)))
    /\ UNCHANGED <<T1, T2, pc, result, heap, t2, wild>>

\* t2.f = v, for a field f of an allowed non-pointer kind.
WriteResultField(i, seed) ==
    /\ pc = "returned"
    /\ i \in 1..Len(T2.fields)
    /\ T2.fields[i].type.ptr = 0
    /\ isValidKind(T2.fields[i].type.base)
    /\ t2' = StoreField(t2, T2.fields, i, Value(seed, Sizeof(T2.fields[i].type)))
    /\ UNCHANGED <<T1, T2, pc, result, heap, src, wild>>

\* *t1.f = v, for a field f that is a pointer to an allowed kind.
StorePointeeViaSource(i, seed) ==
    /\ pc = "returned"
    /\ i \in 1..Len(T1.fields)
    /\ T1.fields[i].type.ptr = 1
    /\ LET addr == AddressOf(FieldBytes(src, T1.fields, i)) IN
          /\ addr \in DOMAIN heap
          /\ heap' = [heap EXCEPT
                        ![addr] = StoreAt(@, Value(seed, Sizeof(Elem(T1.fields[i].type))))]
    /\ UNCHANGED <<T1, T2, pc, result, src, t2, wild>>

\* *t2.f = v, for a field f that is a pointer to an allowed kind.
StorePointeeViaResult(i, seed) ==
    /\ pc = "returned"
    /\ i \in 1..Len(T2.fields)
    /\ T2.fields[i].type.ptr = 1
    /\ LET addr == AddressOf(FieldBytes(t2, T2.fields, i)) IN
          /\ addr \in DOMAIN heap
          /\ heap' = [heap EXCEPT
                        ![addr] = StoreAt(@, Value(seed, Sizeof(Elem(T2.fields[i].type))))]
    /\ UNCHANGED <<T1, T2, pc, result, src, t2, wild>>

\* The value of *t1.f and of *t2.f, for a pointer field f.
PointeeViaSource(i) ==
    LoadAt(heap[AddressOf(FieldBytes(src, T1.fields, i))],
           Sizeof(Elem(T1.fields[i].type)), wild)

PointeeViaResult(i) ==
    LoadAt(heap[AddressOf(FieldBytes(t2, T2.fields, i))],
           Sizeof(Elem(T2.fields[i].type)), wild)

\* The struct types of the runs that go on to use the result.
MemFieldTypes ==
    { [ptr |-> 0, base |-> "Int8"], [ptr |-> 0, base |-> "Int32"],
      [ptr |-> 1, base |-> "Int8"], [ptr |-> 1, base |-> "Int32"] }

InitMem == InitWith(SourceStructs(MemFieldTypes), TargetStructs(MemFieldTypes, {"tt"}))

NextMem ==
    \/ ConvertTo
    \/ \E i \in 1..MaxFields, seed \in WriteSeeds : WriteSourceField(i, seed)
    \/ \E i \in 1..MaxFields, seed \in WriteSeeds : WriteResultField(i, seed)
    \/ \E i \in 1..MaxFields, seed \in WriteSeeds : StorePointeeViaSource(i, seed)
    \/ \E i \in 1..MaxFields, seed \in WriteSeeds : StorePointeeViaResult(i, seed)

SpecMem == InitMem /\ [][NextMem]_vars

-----------------------------------------------------------------------------
(* Vocabulary of the properties                                            *)

PtrToStruct(t) == t.ptr = 1 /\ t.base = "Struct"

IsStruct(t) == t.ptr = 0 /\ t.base = "Struct"

n1 == Len(T1.fields)

n2 == Len(T2.fields)

F1(i) == T1.fields[i].type

F2(i) == T2.fields[i].type

\* The kind of a field type after one level of pointer is stripped.
StrippedKind(f) == IF f.ptr > 1 THEN "Pointer" ELSE f.base

\* The kind of a field type as declared.
RawKind(f) == IF f.ptr > 0 THEN "Pointer" ELSE f.base

Called == pc # "call"

\* T2 has the field list of T1's pointee: a definition of one from the other.
PureRename == PtrToStruct(T1) /\ IsStruct(T2) /\ T2.fields = T1.fields

PassesChecks1to3 == PtrToStruct(T1) /\ IsStruct(T2) /\ T2.fields # T1.fields

PassesChecks1to4 == PassesChecks1to3 /\ n2 <= n1

\* Both per-field tests of the code pass at every index below i (1-based).
LowerIndexesPass(i) ==
    \A j \in 1..(i - 1) :
        /\ RawKind(F1(j)) = RawKind(F2(j))
        /\ StrippedKind(F1(j)) \in validKinds
        /\ StrippedKind(F2(j)) \in validKinds

Unsupported(i) == StrippedKind(F1(i)) \notin validKinds \/ StrippedKind(F2(i)) \notin validKinds

\* One field is a pointer to an allowed kind, the other is that kind itself.
PointerAgainstPlain(i) ==
    /\ F1(i).base = F2(i).base
    /\ F1(i).base \in validKinds
    /\ {F1(i).ptr, F2(i).ptr} = {0, 1}

PanickedWith(msg, index) ==
    pc = "panicked" /\ result.status = "panic" /\ result.msg = msg /\ result.index = index

-----------------------------------------------------------------------------
(* Properties                                                              *)

\* The five invariants of C1: shapes, T2 no larger than T1, not convertible,
\* every shared index has the same allowed kind after one level of pointer
\* is stripped.
FiveInvariants ==
    /\ PtrToStruct(T1) /\ IsStruct(T2)
    /\ n2 <= n1
    /\ T2.fields # T1.fields
    /\ \A i \in 1..n2 :
          /\ StrippedKind(F1(i)) = StrippedKind(F2(i))
          /\ StrippedKind(F1(i)) \in validKinds

\* C1: a value is returned only when the five invariants hold; otherwise the
\* call panics and t2 is never set.
C1_ReturnsOnlyIfInvariants ==
    /\ pc = "returned" => FiveInvariants
    /\ Called /\ ~FiveInvariants => pc = "panicked" /\ t2 = << >>

\* C2: a pair that passes the shape and redundancy checks and whose T2
\* declares more fields than T1's pointee fails with "T2 must be no larger
\* than T1" and with no other failure.
C2_TargetTooLarge ==
    Called /\ PassesChecks1to3 /\ n2 > n1 => PanickedWith(MsgTooLarge, -1)

\* C3: a pair that passes checks 1 to 4 and has an index at which the kinds
\* differ after one level of pointer is stripped fails with the field kind
\* mismatch, pointers with different pointee kinds included.
C3_FieldKindMismatch ==
    Called /\ PassesChecks1to4
           /\ (\E i \in 1..n2 : StrippedKind(F1(i)) # StrippedKind(F2(i)))
        => pc = "panicked" /\ result.msg = MsgMismatch

\* C4: when T2 is a pure rename of T1's pointee, ConvertTo fails with the
\* redundancy failure whatever the field kinds are; that failure takes
\* precedence over the size and per-field failures.
C4_RedundantFirst == Called /\ PureRename => PanickedWith(MsgRedundant, -1)

\* C4 witness: a renamed struct with a string field (the per-field check
\* would fail) was rejected as redundant.
C4_Witness ==
    /\ PanickedWith(MsgRedundant, -1)
    /\ T2.name # T1.name
    /\ \E i \in 1..n2 : F2(i).base = "String"

C6_Precondition ==
    /\ PassesChecks1to4
    /\ \A i \in 1..n2 :
          /\ F1(i).ptr = F2(i).ptr
          /\ F1(i).ptr <= 1
          /\ F1(i).base = F2(i).base
          /\ F1(i).base \in validKinds

\* C6: under that precondition ConvertTo returns and every field of the
\* result holds the bytes of the source's field at the same position.
C6_Positional ==
    Called /\ C6_Precondition =>
        /\ pc = "returned"
        /\ Len(t2) = StructSize(T2.fields)
        /\ \A i \in 1..n2 :
              FieldBytes(t2, T2.fields, i) = FieldBytes(src, T1.fields, i)

\* C6 witness: renamed fields, a pointer among them, an unsupported later
\* field in T1, the fields read back.
C6_Witness ==
    /\ pc = "returned"
    /\ n2 >= 1 /\ n1 > n2
    /\ F1(n1).base = "String"
    /\ F2(n2).ptr = 1
    /\ \A i \in 1..n2 : T2.fields[i].name # T1.fields[i].name
    /\ \A i \in 1..n2 : FieldBytes(t2, T2.fields, i) = FieldBytes(src, T1.fields, i)

RECURSIVE FirstFieldFailure(_)
FirstFieldFailure(i) ==
    IF i > n2 THEN Ok
    ELSE IF RawKind(F1(i)) # RawKind(F2(i)) THEN Panic(MsgMismatch, i - 1)
    ELSE IF Unsupported(i) THEN Panic(MsgInvalid, i - 1)
    ELSE FirstFieldFailure(i + 1)

FirstFailure ==
    IF ~PtrToStruct(T1) THEN Panic(MsgSource, -1)
    ELSE IF ~IsStruct(T2) THEN Panic(MsgTarget, -1)
    ELSE IF T2.fields = T1.fields THEN Panic(MsgRedundant, -1)
    ELSE IF n2 > n1 THEN Panic(MsgTooLarge, -1)
    ELSE FirstFieldFailure(1)

\* C10: the result of a call is the first failure in that order, or success
\* when no check fails.
C10_FirstFailingCheck == Called => result = FirstFailure

\* Two little-endian unsigned values, possibly of different widths, are the
\* same number.
SameValue(a, b) ==
    /\ \A k \in 1..Len(a) : IF k <= Len(b) THEN a[k] = b[k] ELSE a[k] = 0
    /\ \A k \in 1..Len(b) : k > Len(a) => b[k] = 0

\* C7: the returned value is a view of the source, not a snapshot: at any
\* time after the return, whatever was written to a non-pointer field of
\* either is what the corresponding field of the other holds.
C7_ResultIsView ==
    pc = "returned" =>
        \A i \in 1..n2 :
            F2(i).ptr = 0 => FieldBytes(t2, T2.fields, i) = FieldBytes(src, T1.fields, i)

\* C8: after a successful ConvertTo the i-th fields of source and result,
\* when pointers, refer to the same pointee: every later write to the
\* pointee through the source is read through the result, and every later
\* write through the result is read through the source.
C8_SharedPointee ==
    [][\A i \in 1..MaxFields, seed \in WriteSeeds :
          /\ StorePointeeViaSource(i, seed) /\ i <= n2 /\ F2(i).ptr = 1
                => SameValue(PointeeViaResult(i)', Value(seed, Sizeof(Elem(F1(i)))))
          /\ StorePointeeViaResult(i, seed)
                => SameValue(PointeeViaSource(i)', Value(seed, Sizeof(Elem(F2(i)))))]_vars

====
